---- MODULE Spec2Model ----
(***************************************************************************)
(* State-machine model of sillyhatxu/sqlite-client: the SqliteClient       *)
(* handle (client.go) and its flyway-style migration runner (options.go).  *)
(*                                                                         *)
(* Goroutines call Initial on one shared client.  The database file, its   *)
(* schema_version table ("the ledger") and the script directory are the    *)
(* environment.  Storage and filesystem failures are inputs chosen with \E *)
(* at the call that can fail.  The directory is edited only while no       *)
(* Initial call is in progress (scripts are changed between runs).         *)
(***************************************************************************)
EXTENDS Integers, Sequences, FiniteSets, TLC

\* ------------------------------------------------------------- bounds
NumProcs    == 2    \* goroutines that may call Initial
MaxScripts  == 2    \* script file names; the name n sorts n-th in a listing
MaxOpts     == 2    \* options passed to NewSqliteClient
MaxExec     == 2    \* executions of one script that are counted
MaxRetry    == 2    \* attempts retry.Do may make when given no Attempts option
MaxAttempts == 2    \* values given to the Attempts option
MaxRows     == 2    \* rows of the table the store operations work on

Procs    == 1..NumProcs
Names    == 1..MaxScripts
Contents == { <<97>>, <<98>> }                      \* file contents "a", "b" as bytes
Paths    == {"", "migration"}                       \* values given to DDLPath
\* time.Duration.String() of the measured elapsed time, as characters
Elapsed  == { <<"1", "h", "0", "m", "0", "s">> }

SchemaVersionStatusSuccess == "SUCCESS"
SchemaVersionStatusError   == "ERROR"

\* ------------------------------------------------------------- hash64
\* A uint64 is four 16-bit limbs, least significant first.
Limb == 65536

RECURSIVE Xor(_, _)
Xor(a, b) ==
  IF a = 0 THEN b
  ELSE IF b = 0 THEN a
  ELSE (((a % 2) + (b % 2)) % 2) + 2 * Xor(a \div 2, b \div 2)

\* hash/fnv offset64 = 14695981039346656037 = 0xcbf29ce484222325
FnvOffset64 == <<8997, 33826, 40164, 52210>>

\* h * prime64 mod 2^64, prime64 = 1099511628211 = 2^40 + 435
MulPrime64(h) ==
  LET r1 == h[1] * 435
      r2 == h[2] * 435 + (r1 \div Limb)
      r3 == h[3] * 435 + h[1] * 256 + (r2 \div Limb)
      r4 == h[4] * 435 + h[2] * 256 + (r3 \div Limb)
  IN  <<r1 % Limb, r2 % Limb, r3 % Limb, r4 % Limb>>

\* fnv.New64(): FNV-1, for each byte: hash *= prime; hash ^= byte
RECURSIVE Fnv1(_, _)
Fnv1(h, bytes) ==
  IF bytes = <<>> THEN h
  ELSE LET m == MulPrime64(h)
       IN  Fnv1(<<Xor(m[1], Head(bytes)), m[2], m[3], m[4]>>, Tail(bytes))

hash64(s) == Fnv1(FnvOffset64, s)

\* h \div 10 and h % 10 by long division from the top limb
DivMod10(h) ==
  LET c4 == h[4]
      c3 == (c4 % 10) * Limb + h[3]
      c2 == (c3 % 10) * Limb + h[2]
      c1 == (c2 % 10) * Limb + h[1]
  IN  [q |-> <<c1 \div 10, c2 \div 10, c3 \div 10, c4 \div 10>>, r |-> c1 % 10]

\* strconv.FormatUint(h, 10): the decimal digits, most significant first
RECURSIVE FormatUint(_)
FormatUint(h) ==
  LET d == DivMod10(h)
  IN  IF d.q = <<0, 0, 0, 0>> THEN <<d.r>> ELSE Append(FormatUint(d.q), d.r)

Checksum(content) == FormatUint(hash64(content))

\* ------------------------------------------------------------- shortDur
HasSuffix(s, suf) ==
  /\ Len(s) >= Len(suf)
  /\ SubSeq(s, Len(s) - Len(suf) + 1, Len(s)) = suf

shortDur(d) ==
  LET s1 == IF HasSuffix(d, <<"m", "0", "s">>) THEN SubSeq(d, 1, Len(d) - 2) ELSE d
  IN  IF HasSuffix(s1, <<"h", "0", "m">>) THEN SubSeq(s1, 1, Len(s1) - 2) ELSE s1

\* ------------------------------------------------------------- ledger lookups
\* a lookup that never finds a row
findByScriptMiss(script, svArray) == 0

\* findByScript: the first row with this script name, 0 when there is none
findByScript(script, svArray) ==
  IF \E i \in 1..Len(svArray) : svArray[i].script = script
  THEN CHOOSE i \in 1..Len(svArray) :
         /\ svArray[i].script = script
         /\ \A j \in 1..(i - 1) : svArray[j].script # script
  ELSE 0

\* hasError: TRUE when the function returns a non-nil error
hasError(svArray) ==
  \E i \in 1..Len(svArray) : svArray[i].status = SchemaVersionStatusError

\* ioutil.ReadDir returns the entries sorted by file name
RECURSIVE SortedSeq(_)
SortedSeq(S) ==
  IF S = {} THEN <<>>
  ELSE LET m == CHOOSE x \in S : \A y \in S : x <= y
       IN  <<m>> \o SortedSeq(S \ {m})

IsPrefix(s, t) == Len(s) <= Len(t) /\ SubSeq(t, 1, Len(s)) = s

\* ------------------------------------------------------------- state
VARIABLES
  config,        \* Config: ddlPath and flyway (options.go)
  optsLeft,      \* options NewSqliteClient may still apply
  db,            \* sc.db: "nil" or "open"
  mu,            \* sc.mu: 0 when free, else the goroutine holding it
  tableExists,   \* the database has a schema_version table
  ledger,        \* rows of schema_version in id order
  dirListable,   \* the migration directory can be listed
  dir,           \* the migration directory: file name -> content
  pc,            \* where each goroutine is in Initial
  err,           \* the error Initial is about to return ("nil" for none)
  svArray,       \* executeFlayway's svArray
  files,         \* executeFlayway's files
  idx,           \* position of the range loop over files
  run,           \* history of the call in progress
  execCount,     \* history: db.Exec calls made for each script name since
                 \*   its content was last changed
  prevOk,        \* history: the last call to return since the directory was
                 \*   last edited returned nil
  libAttempts,   \* attempts retry.Do makes by default (retry-utils)
  opens,         \* sql.Open calls made by the OpenDataSource in progress
  stage,         \* the caller of the store operations: where it is
  table,         \* rows of the table the store operations work on
  last           \* the last store operation: its inputs and its results

client == <<config, optsLeft, db, mu>>
store  == <<tableExists, ledger>>
fs     == <<dirListable, dir>>
locals == <<svArray, files, idx>>
hist   == <<execCount, prevOk>>
calls  == <<libAttempts, opens, stage, table, last>>
vars   == <<client, store, fs, pc, err, locals, run, hist, calls>>

NoRun == [start |-> <<>>, executed |-> {}, faults |-> {}, failed |-> 0]

\* NewSqliteClient's default config: the fields Initial reads
DefaultConfig == [ddlPath |-> "", flyway |-> FALSE, attempts |-> 3]

\* no store operation has been called
NoCall == [op |-> "none", outcome |-> "ok", callback |-> "nil", err |-> "nil",
           begun |-> 0, invoked |-> 0, commits |-> 0, rollbacks |-> 0,
           committed |-> FALSE, value |-> 0]

Init ==
  /\ config = DefaultConfig
  /\ optsLeft = MaxOpts
  /\ db = "nil"
  /\ mu = 0
  /\ tableExists = FALSE
  /\ ledger = <<>>
  /\ dirListable = TRUE
  /\ dir = <<>>
  /\ pc = [g \in Procs |-> "idle"]
  /\ err = [g \in Procs |-> "nil"]
  /\ svArray = [g \in Procs |-> <<>>]
  /\ files = [g \in Procs |-> <<>>]
  /\ idx = [g \in Procs |-> 0]
  /\ run = [g \in Procs |-> NoRun]
  /\ execCount = [n \in Names |-> 0]
  /\ prevOk = FALSE
  /\ libAttempts = 1
  /\ opens = 0
  /\ stage = "new"
  /\ table = <<>>
  /\ last = NoCall

\* ------------------------------------------------------------- options
\* The Option returned by DDLPath(ddlPath), applied to a config
DDLPath(c, ddlPath) ==
  [c EXCEPT !.ddlPath = ddlPath,
            !.flyway = IF ddlPath # "" THEN TRUE ELSE @]

\* NewSqliteClient applies one more option; no option after the first Initial
NewSqliteClient ==
  /\ optsLeft > 0
  /\ \E p \in Paths : config' = DDLPath(config, p)
  /\ optsLeft' = optsLeft - 1
  /\ UNCHANGED <<db, mu, store, fs, pc, err, locals, run, hist, calls>>

\* ------------------------------------------------------------- environment
Quiet == \A g \in Procs : pc[g] = "idle"

\* ioutil.ReadDir(sc.config.ddlPath) succeeds
Listable == config.ddlPath # "" /\ dirListable

\* what the directory at the configured path holds
Scripts == IF Listable THEN DOMAIN dir ELSE {}

AddScript ==
  /\ Quiet /\ dirListable
  /\ \E n \in Names \ DOMAIN dir, c \in Contents : dir' = (n :> c) @@ dir
  /\ prevOk' = FALSE
  /\ UNCHANGED <<client, store, dirListable, pc, err, locals, run, execCount, calls>>

EditScript ==
  /\ Quiet /\ dirListable
  /\ \E n \in DOMAIN dir, c \in Contents :
       /\ dir[n] # c
       /\ dir' = [dir EXCEPT ![n] = c]
       /\ execCount' = [execCount EXCEPT ![n] = 0]
  /\ prevOk' = FALSE
  /\ UNCHANGED <<client, store, dirListable, pc, err, locals, run, calls>>

\* the directory is moved away, or moved back with the files it held
MoveDir ==
  /\ Quiet
  /\ dirListable' = ~dirListable
  /\ prevOk' = FALSE
  /\ UNCHANGED <<client, store, dir, pc, err, locals, run, execCount, calls>>

\* ------------------------------------------------------------- storage
\* Outcomes of one storage call: GetDB may fail (the liveness check and the
\* re-open both fail), the statement may fail, or the call succeeds.
Outcomes == {"ok", "getdb", "stmt"}

\* ExecDDL: the error it returns
ExecDDL(outcome) == IF outcome = "ok" THEN "nil" ELSE "exec"

\* Query: the error it returns
Query(outcome) == IF outcome = "ok" THEN "nil" ELSE "query"

\* a statement that puts the new row before the rows the table holds
InsertRowFirst(rows, row) == <<row>> \o rows

\* INSERT INTO schema_version: the new row gets the next id
InsertRow(rows, row) == Append(rows, row)

\* Insert: the table afterwards and the error returned; a GetDB failure
\* returns (0, nil)
Insert(rows, row, outcome) ==
  [rows |-> IF outcome = "ok" THEN InsertRow(rows, row) ELSE rows,
   err  |-> IF outcome = "stmt" THEN "insert" ELSE "nil"]

\* insertSchemaVersion: the table afterwards; Insert's error is only logged
insertSchemaVersion(rows, schemaVersion, outcome) ==
  Insert(rows, schemaVersion, outcome).rows

\* GetDB: the handle and the error it returns, and sc.db afterwards.
\* ping: sc.Ping() succeeds; open: the OpenDataSource it falls back on
\* succeeds
GetDB(handle, ping, open) ==
  IF ping THEN [db |-> handle, err |-> "nil", scdb |-> handle]
  ELSE IF open THEN [db |-> "open", err |-> "nil", scdb |-> "open"]
  ELSE [db |-> "nil", err |-> "open", scdb |-> handle]

\* HasTable("schema_version"): Query's error, and whether count > 0
HasTable(exists, outcome) ==
  [exist |-> outcome = "ok" /\ exists, err |-> Query(outcome)]

\* initialSchemaVersion: whether the table exists afterwards and the error
\* returned
initialSchemaVersion(exists, hasTable, ddl) ==
  LET h == HasTable(exists, hasTable)
  IN  IF h.err # "nil" THEN [tableExists |-> exists, err |-> h.err]
      ELSE IF h.exist THEN [tableExists |-> exists, err |-> "nil"]
      ELSE [tableExists |-> ddl = "ok", err |-> ExecDDL(ddl)]

\* SchemaVersionArray without the make() of an empty result
SchemaVersionArrayNoMake(exists, rows, outcome) ==
  IF outcome = "ok" /\ exists
  THEN [isNil |-> rows = <<>>, svArray |-> rows, err |-> "nil"]
  ELSE [isNil |-> TRUE, svArray |-> <<>>, err |-> "query"]

\* SchemaVersionArray: the slice returned (isNil: it is the nil slice) and
\* the error; the query fails when the table is missing
SchemaVersionArray(exists, rows, outcome) ==
  IF outcome = "ok" /\ exists
  THEN [isNil |-> FALSE, svArray |-> rows, err |-> "nil"]
  ELSE [isNil |-> TRUE, svArray |-> <<>>, err |-> "query"]

\* ------------------------------------------------------------- Initial
\* return e: the deferred Unlock runs in Return
Finish(g, e) ==
  /\ err' = [err EXCEPT ![g] = e]
  /\ pc' = [pc EXCEPT ![g] = "ret"]

\* return the error e of a failed call
Fail(g, e) ==
  /\ Finish(g, e)
  /\ run' = [run EXCEPT ![g].faults = @ \cup {e}]

\* sc.mu.Lock() can return
LockFree(g) == mu = 0

\* Initial: sc.mu.Lock()
Lock(g) ==
  /\ pc[g] = "idle"
  /\ LockFree(g)
  /\ mu' = g
  /\ optsLeft' = 0
  /\ pc' = [pc EXCEPT ![g] = "open"]
  /\ run' = [run EXCEPT ![g] = [NoRun EXCEPT !.start = ledger]]
  /\ UNCHANGED <<config, db, store, fs, err, locals, hist, calls>>

\* Initial: db, err := sc.OpenDataSource(); sc.db = db
OpenDataSource(g) ==
  /\ pc[g] = "open"
  /\ \/ /\ db' = "open"
        /\ pc' = [pc EXCEPT ![g] = "ping"]
        /\ UNCHANGED <<err, run>>
     \/ /\ Fail(g, "open")
        /\ UNCHANGED db
  /\ UNCHANGED <<config, optsLeft, mu, store, fs, locals, hist, calls>>

\* Initial: err = sc.Ping()
Ping(g) ==
  /\ pc[g] = "ping"
  /\ \/ /\ pc' = [pc EXCEPT ![g] = "flyway"]
        /\ UNCHANGED <<err, run>>
     \/ Fail(g, "ping")
  /\ UNCHANGED <<client, store, fs, locals, hist, calls>>

\* initialFlayway up to the call of executeFlayway: the flyway test and
\* initialSchemaVersion (HasTable, then ExecDDL(DDLSchemaVersion))
initialFlayway(g) ==
  /\ pc[g] = "flyway"
  /\ \/ /\ ~config.flyway
        /\ Finish(g, "nil")
        /\ UNCHANGED <<tableExists, run>>
     \/ /\ config.flyway
        /\ \E o \in Outcomes \ {"ok"} : Fail(g, Query(o))
        /\ UNCHANGED tableExists
     \/ /\ config.flyway
        /\ tableExists
        /\ pc' = [pc EXCEPT ![g] = "execute"]
        /\ UNCHANGED <<tableExists, err, run>>
     \/ /\ config.flyway
        /\ ~tableExists
        /\ \E o \in Outcomes \ {"ok"} : Fail(g, ExecDDL(o))
        /\ UNCHANGED tableExists
     \/ /\ config.flyway
        /\ ~tableExists
        /\ tableExists' = TRUE
        /\ pc' = [pc EXCEPT ![g] = "execute"]
        /\ UNCHANGED <<err, run>>
  /\ UNCHANGED <<client, ledger, fs, locals, hist, calls>>

\* executeFlayway returning ReadDir's error instead of nil
OnReadDirErrorSurfaced == "readdir"

\* executeFlayway: what it returns when ioutil.ReadDir fails
OnReadDirError == "nil"

\* executeFlayway up to the range loop: ReadDir, SchemaVersionArray, hasError
executeFlayway(g) ==
  /\ pc[g] = "execute"
  /\ \/ /\ ~Listable
        /\ Finish(g, OnReadDirError)
        /\ run' = [run EXCEPT ![g].faults = @ \cup {"readdir"}]
        /\ UNCHANGED locals
     \/ /\ Listable
        /\ \E o \in Outcomes : (o # "ok" \/ ~tableExists) /\ Fail(g, "query")
        /\ UNCHANGED locals
     \/ /\ Listable /\ tableExists
        /\ hasError(ledger)
        /\ Finish(g, "abnormal")
        /\ UNCHANGED <<locals, run>>
     \/ /\ Listable /\ tableExists
        /\ ~hasError(ledger)
        /\ DOMAIN dir = {}
        /\ Finish(g, "nil")
        /\ UNCHANGED <<locals, run>>
     \/ /\ Listable /\ tableExists
        /\ ~hasError(ledger)
        /\ DOMAIN dir # {}
        /\ svArray' = [svArray EXCEPT ![g] = ledger]
        /\ files' = [files EXCEPT ![g] = SortedSeq(DOMAIN dir)]
        /\ idx' = [idx EXCEPT ![g] = 1]
        /\ pc' = [pc EXCEPT ![g] = "read"]
        /\ UNCHANGED <<err, run>>
  /\ UNCHANGED <<client, store, fs, hist, calls>>

\* the range loop of executeFlayway after readFile returned nil
NextFile(g) ==
  IF idx[g] = Len(files[g])
  THEN Finish(g, "nil") /\ UNCHANGED idx
  ELSE idx' = [idx EXCEPT ![g] = @ + 1] /\ UNCHANGED <<pc, err>>

\* readFile never comparing the recorded checksum
ChangedIgnored(sv, checksum) == FALSE

\* readFile: the recorded checksum differs from the file's
Changed(sv, checksum) == sv.checksum # checksum

\* one iteration of the range loop: readFile(f, svArray)
readFile(g) ==
  /\ pc[g] = "read"
  /\ LET script   == files[g][idx[g]]
         checksum == Checksum(dir[script])
         found    == findByScript(script, svArray[g])
     IN
     \/ /\ Fail(g, "readfile")
        /\ UNCHANGED <<idx, ledger, execCount>>
     \/ /\ found # 0
        /\ Changed(svArray[g][found], checksum)
        /\ Finish(g, "changed")
        /\ UNCHANGED <<idx, ledger, run, execCount>>
     \/ /\ found # 0
        /\ ~Changed(svArray[g][found], checksum)
        /\ NextFile(g)
        /\ UNCHANGED <<ledger, run, execCount>>
     \/ /\ found = 0
        /\ \E exec \in Outcomes, elapsed \in Elapsed, ins \in Outcomes :
             LET e == ExecDDL(exec)
                 schemaVersion ==
                   [script        |-> script,
                    checksum      |-> checksum,
                    executionTime |-> shortDur(elapsed),
                    status        |-> IF e = "nil"
                                      THEN SchemaVersionStatusSuccess
                                      ELSE SchemaVersionStatusError]
             IN
             /\ ledger' = insertSchemaVersion(ledger, schemaVersion, ins)
             /\ execCount' =
                  IF exec # "getdb" /\ execCount[script] < MaxExec
                  THEN [execCount EXCEPT ![script] = @ + 1]
                  ELSE execCount
             /\ run' = [run EXCEPT
                  ![g].executed = IF exec # "getdb" THEN @ \cup {script} ELSE @,
                  ![g].faults = @ \cup (IF e # "nil" THEN {e} ELSE {})
                                  \cup (IF ins # "ok" THEN {"insert"} ELSE {}),
                  ![g].failed = IF e # "nil" THEN script ELSE @]
             /\ IF e = "nil"
                THEN NextFile(g)
                ELSE Finish(g, e) /\ UNCHANGED idx
  /\ UNCHANGED <<client, tableExists, fs, svArray, files, prevOk, calls>>

\* Initial returns err[g]: the deferred sc.mu.Unlock()
Return(g) ==
  /\ pc[g] = "ret"
  /\ mu' = 0
  /\ pc' = [pc EXCEPT ![g] = "idle"]
  /\ prevOk' = (err[g] = "nil")
  /\ err' = [err EXCEPT ![g] = "nil"]
  /\ svArray' = [svArray EXCEPT ![g] = <<>>]
  /\ files' = [files EXCEPT ![g] = <<>>]
  /\ idx' = [idx EXCEPT ![g] = 0]
  /\ run' = [run EXCEPT ![g] = NoRun]
  /\ UNCHANGED <<config, optsLeft, db, store, fs, execCount, calls>>

Next ==
  \/ NewSqliteClient
  \/ AddScript
  \/ EditScript
  \/ MoveDir
  \/ \E g \in Procs : Lock(g)
  \/ \E g \in Procs : OpenDataSource(g)
  \/ \E g \in Procs : Ping(g)
  \/ \E g \in Procs : initialFlayway(g)
  \/ \E g \in Procs : executeFlayway(g)
  \/ \E g \in Procs : readFile(g)
  \/ \E g \in Procs : Return(g)

Spec == Init /\ [][Next]_vars

\* ------------------------------------------------------------- store operations
\* One caller constructs a client without a script directory, calls Initial
\* and then the store operations, one after another.

\* The Option returned by Attempts(attempts), applied to a config
Attempts(c, attempts) == [c EXCEPT !.attempts = attempts]

\* NewSqliteClient applies an Attempts option
NewSqliteClientAttempts ==
  /\ stage = "new"
  /\ optsLeft > 0
  /\ \E n \in 1..MaxAttempts : config' = Attempts(config, n)
  /\ optsLeft' = optsLeft - 1
  /\ UNCHANGED <<db, mu, store, fs, pc, err, locals, run, hist, calls>>

\* Initial up to the call of retry.Do in OpenDataSource
InitialOpen ==
  /\ stage \in {"new", "up", "down"}
  /\ stage' = "open"
  /\ opens' = 0
  /\ optsLeft' = 0
  /\ UNCHANGED <<config, db, mu, store, fs, pc, err, locals, run, hist,
                 libAttempts, table, last>>

\* retry.Do calls the closure of OpenDataSource once more.  It was given an
\* ErrorCallback and no other option, so it gives up after its own default
\* number of attempts; after a success Initial sets sc.db
OpenDataSourceTry ==
  /\ stage = "open"
  /\ opens' = opens + 1
  /\ \/ /\ db' = "open"
        /\ stage' = "ping"
     \/ /\ opens + 1 < libAttempts
        /\ UNCHANGED <<db, stage>>
     \/ /\ opens + 1 >= libAttempts
        /\ stage' = "down"
        /\ UNCHANGED db
  /\ UNCHANGED <<config, optsLeft, mu, store, fs, pc, err, locals, run, hist,
                 libAttempts, table, last>>

\* Initial: sc.Ping(), called once, then initialFlayway with flyway unset
InitialPing ==
  /\ stage = "ping"
  /\ stage' \in {"up", "down"}
  /\ UNCHANGED <<client, store, fs, pc, err, locals, run, hist,
                 libAttempts, opens, table, last>>

\* the outcomes of db.Begin, of the statement (Prepare, Exec, Scan) and of
\* tx.Commit, when GetDB has returned a handle
Steps == {"ok", "stmt", "begin", "commit"}

\* values a TransactionCallback returns
Callbacks == {"nil", "callback"}

\* the outcome of a store operation whose GetDB pings (ping) and re-opens
\* (open) with these results and whose later steps go as step says
Outcome(ping, open, step) ==
  IF GetDB(db, ping, open).err # "nil" THEN "getdb" ELSE step

\* Delete's WHERE clause: the row has not been set by Update
NotUpdated(v) == v # 1

\* Update: the table afterwards (every row is set) and the error returned;
\* a GetDB failure returns (0, nil)
Update(rows, outcome) ==
  [rows |-> IF outcome = "ok" THEN [i \in 1..Len(rows) |-> 1] ELSE rows,
   err  |-> IF outcome = "stmt" THEN "update" ELSE "nil"]

\* Delete: the table afterwards (the rows that were set are deleted) and
\* the error returned; a GetDB failure returns (0, nil)
Delete(rows, outcome) ==
  [rows |-> IF outcome = "ok" THEN SelectSeq(rows, NotUpdated) ELSE rows,
   err  |-> IF outcome = "stmt" THEN "delete" ELSE "nil"]

\* a Transaction that commits whatever the callback returns
CommitsAlways(callbackErr) == TRUE

\* Transaction: tx.Commit() is reached
Commits(callbackErr) == callbackErr = "nil"

\* Transaction, with a callback that inserts one row and returns callback:
\* the table afterwards, the error returned and the calls made
Transaction(rows, callback, outcome) ==
  IF outcome = "getdb"
  THEN [rows |-> rows, err |-> "nil", begun |-> 0, invoked |-> 0,
        commits |-> 0, rollbacks |-> 0, committed |-> FALSE]
  ELSE IF outcome = "begin"
  THEN [rows |-> rows, err |-> "begin", begun |-> 0, invoked |-> 0,
        commits |-> 0, rollbacks |-> 0, committed |-> FALSE]
  ELSE IF ~Commits(callback)
  THEN [rows |-> rows, err |-> callback, begun |-> 1, invoked |-> 1,
        commits |-> 0, rollbacks |-> 1, committed |-> FALSE]
  ELSE IF outcome = "commit"
  THEN [rows |-> rows, err |-> "commit", begun |-> 1, invoked |-> 1,
        commits |-> 1, rollbacks |-> 0, committed |-> FALSE]
  ELSE [rows |-> Append(rows, 0), err |-> callback, begun |-> 1,
        invoked |-> 1, commits |-> 1, rollbacks |-> 0, committed |-> TRUE]

\* Count: the count and the error returned; the failed Scan returns err,
\* which holds db.Begin's nil
Count(rows, outcome) ==
  [value |-> IF outcome = "ok" THEN Len(rows) ELSE 0,
   err   |-> IF outcome = "getdb" THEN "open"
             ELSE IF outcome = "begin" THEN "begin" ELSE "nil",
   begun |-> IF outcome \in {"ok", "stmt"} THEN 1 ELSE 0]

\* sc.db is set: a store operation can call sc.Ping()
Ready == stage \in {"up", "down"} /\ db = "open"

CallInsert ==
  /\ Ready
  /\ Len(table) < MaxRows
  /\ \E ping, open \in BOOLEAN, step \in {"ok", "stmt"} :
       LET o == Outcome(ping, open, step)
           r == Insert(table, 0, o)
       IN  /\ table' = r.rows
           /\ db' = GetDB(db, ping, open).scdb
           /\ last' = [NoCall EXCEPT !.op = "Insert", !.outcome = o,
                                     !.err = r.err]
  /\ UNCHANGED <<config, optsLeft, mu, store, fs, pc, err, locals, run, hist,
                 libAttempts, opens, stage>>

CallUpdate ==
  /\ Ready
  /\ \E ping, open \in BOOLEAN, step \in {"ok", "stmt"} :
       LET o == Outcome(ping, open, step)
           r == Update(table, o)
       IN  /\ table' = r.rows
           /\ db' = GetDB(db, ping, open).scdb
           /\ last' = [NoCall EXCEPT !.op = "Update", !.outcome = o,
                                     !.err = r.err]
  /\ UNCHANGED <<config, optsLeft, mu, store, fs, pc, err, locals, run, hist,
                 libAttempts, opens, stage>>

CallDelete ==
  /\ Ready
  /\ \E ping, open \in BOOLEAN, step \in {"ok", "stmt"} :
       LET o == Outcome(ping, open, step)
           r == Delete(table, o)
       IN  /\ table' = r.rows
           /\ db' = GetDB(db, ping, open).scdb
           /\ last' = [NoCall EXCEPT !.op = "Delete", !.outcome = o,
                                     !.err = r.err]
  /\ UNCHANGED <<config, optsLeft, mu, store, fs, pc, err, locals, run, hist,
                 libAttempts, opens, stage>>

CallTransaction ==
  /\ Ready
  /\ Len(table) < MaxRows
  /\ \E ping, open \in BOOLEAN, step \in {"ok", "begin", "commit"},
        callback \in Callbacks :
       LET o == Outcome(ping, open, step)
           r == Transaction(table, callback, o)
       IN  /\ table' = r.rows
           /\ db' = GetDB(db, ping, open).scdb
           /\ last' = [NoCall EXCEPT !.op = "Transaction", !.outcome = o,
                                     !.callback = callback, !.err = r.err,
                                     !.begun = r.begun,
                                     !.invoked = r.invoked,
                                     !.commits = r.commits,
                                     !.rollbacks = r.rollbacks,
                                     !.committed = r.committed]
  /\ UNCHANGED <<config, optsLeft, mu, store, fs, pc, err, locals, run, hist,
                 libAttempts, opens, stage>>

CallCount ==
  /\ Ready
  /\ \E ping, open \in BOOLEAN, step \in {"ok", "begin", "stmt"} :
       LET o == Outcome(ping, open, step)
           r == Count(table, o)
       IN  /\ db' = GetDB(db, ping, open).scdb
           /\ last' = [NoCall EXCEPT !.op = "Count", !.outcome = o,
                                     !.err = r.err, !.value = r.value,
                                     !.begun = r.begun,
                                     !.commits = r.begun]
  /\ UNCHANGED <<config, optsLeft, mu, store, fs, pc, err, locals, run, hist,
                 libAttempts, opens, stage, table>>

InitStore ==
  /\ config = DefaultConfig
  /\ optsLeft = MaxOpts
  /\ db = "nil"
  /\ mu = 0
  /\ tableExists = FALSE
  /\ ledger = <<>>
  /\ dirListable = TRUE
  /\ dir = <<>>
  /\ pc = [g \in Procs |-> "idle"]
  /\ err = [g \in Procs |-> "nil"]
  /\ svArray = [g \in Procs |-> <<>>]
  /\ files = [g \in Procs |-> <<>>]
  /\ idx = [g \in Procs |-> 0]
  /\ run = [g \in Procs |-> NoRun]
  /\ execCount = [n \in Names |-> 0]
  /\ prevOk = FALSE
  /\ libAttempts \in 1..MaxRetry
  /\ opens = 0
  /\ stage = "new"
  /\ table = <<>>
  /\ last = NoCall

NextStore ==
  \/ NewSqliteClientAttempts
  \/ InitialOpen
  \/ OpenDataSourceTry
  \/ InitialPing
  \/ CallInsert
  \/ CallUpdate
  \/ CallDelete
  \/ CallTransaction
  \/ CallCount

SpecStore == InitStore /\ [][NextStore]_vars

\* ------------------------------------------------------------- sanity
TypeOK ==
  /\ config \in [ddlPath : Paths, flyway : BOOLEAN,
                attempts : {DefaultConfig.attempts} \cup (1..MaxAttempts)]
  /\ optsLeft \in 0..MaxOpts
  /\ db \in {"nil", "open"}
  /\ mu \in {0} \cup Procs
  /\ tableExists \in BOOLEAN
  /\ DOMAIN dir \subseteq Names
  /\ \A n \in DOMAIN dir : dir[n] \in Contents
  /\ \A n \in Names : execCount[n] \in 0..MaxExec
  /\ prevOk \in BOOLEAN

\* ------------------------------------------------------------- claims
\* Initial is about to return in goroutine g
Returning(g) == pc[g] = "ret"

\* ... and its migration run (initialFlayway with flyway set) was entered
RanMigrations(g) ==
  /\ Returning(g)
  /\ config.flyway
  /\ err[g] \notin {"open", "ping"}

\* the rows the call in progress has appended
Appended(g) == SubSeq(ledger, Len(run[g].start) + 1, Len(ledger))

\* script n was recorded when the call began, with another checksum than
\* its content has now
Tampered(g, n) ==
  /\ n \in Scripts
  /\ \E i \in 1..Len(run[g].start) :
       /\ run[g].start[i].script = n
       /\ run[g].start[i].checksum # Checksum(dir[n])

Recorded(g, n) ==
  \E i \in 1..Len(run[g].start) : run[g].start[i].script = n

\* mutual exclusion of Initial: at most one goroutine is between Lock and
\* the deferred Unlock
MutualExclusion == Cardinality({g \in Procs : pc[g] # "idle"}) <= 1

\* C1: idempotence.  After a migration run over the directory has returned
\* success, a second run over the same unchanged directory appends no ledger
\* row and executes no script.
C1_SecondRunIdle ==
  \A g \in Procs :
    (Returning(g) /\ config.flyway /\ prevOk)
      => (ledger = run[g].start /\ run[g].executed = {})

\* C2, as stated: when the directory holds a script recorded with another
\* checksum, the run returns an error and appends no ledger row, whatever
\* else the directory holds.
C2_TamperNoRows ==
  \A g \in Procs :
    (Returning(g) /\ config.flyway /\ \E n \in Names : Tampered(g, n))
      => (err[g] # "nil" /\ ledger = run[g].start)

\* C2, amended: when the directory holds a script recorded with another
\* checksum, the run returns an error, and every row it appends is for a
\* script that was not recorded and is listed before the first such script;
\* no row is appended when there is no such earlier script.
C2_TamperStops ==
  \A g \in Procs :
    (Returning(g) /\ config.flyway /\ \E n \in Names : Tampered(g, n))
      => LET first == CHOOSE n \in Names :
                        /\ Tampered(g, n)
                        /\ \A m \in Names : Tampered(g, m) => n <= m
             new   == Appended(g)
         IN  /\ err[g] # "nil"
             /\ IsPrefix(run[g].start, ledger)
             /\ \A i \in 1..Len(new) :
                  new[i].script < first /\ ~Recorded(g, new[i].script)
             /\ (\A m \in Scripts : m < first => Recorded(g, m))
                  => ledger = run[g].start

\* C2 witness: a run stopped at a changed script after it had recorded a
\* new script listed before it.
C2_Witness ==
  \E g \in Procs :
    /\ Returning(g) /\ config.flyway
    /\ \E n \in Names : Tampered(g, n)
    /\ err[g] = "changed"
    /\ Len(ledger) > Len(run[g].start)

\* C3: when executing an unrecorded script fails, the run returns the
\* execution error having appended exactly one ERROR row, for that script,
\* and no later script of the listing is executed or recorded.
C3_FailureRecorded ==
  \A g \in Procs :
    (Returning(g) /\ run[g].failed # 0)
      => LET new == Appended(g)
         IN  /\ err[g] = "exec"
             /\ Len(new) >= 1
             /\ new[Len(new)].script = run[g].failed
             /\ \A i \in 1..Len(new) :
                  new[i].status = SchemaVersionStatusError <=> i = Len(new)
             /\ \A n \in Names :
                  n > run[g].failed
                    => /\ n \notin run[g].executed
                       /\ \A i \in 1..Len(new) : new[i].script # n

\* C4: a migration run that starts with an ERROR row in the ledger returns
\* an error, executes no script and appends no row, whatever the state of
\* the script directory.
C4_AbortRule ==
  \A g \in Procs :
    (RanMigrations(g) /\ hasError(run[g].start))
      => (err[g] # "nil" /\ run[g].executed = {} /\ ledger = run[g].start)

C6_OptIn ==
  \A g \in Procs :
    (Returning(g) /\ err[g] \notin {"open", "ping"})
      => /\ config.flyway <=> config.ddlPath # ""
         /\ config.ddlPath = ""
              => (~tableExists /\ run[g].executed = {} /\ err[g] = "nil")

\* C7: every step leaves the ledger it found as a prefix of the ledger it
\* leaves: rows are only appended, never deleted or changed.
C7_AppendOnly == [][IsPrefix(ledger, ledger')]_vars

\* C7 witness: the ledger holds a SUCCESS row followed by an ERROR row.
C7_Witness ==
  /\ Len(ledger) >= 2
  /\ ledger[1].status = SchemaVersionStatusSuccess
  /\ ledger[2].status = SchemaVersionStatusError

\* C8: every failure during Initial's migration sequence, other than the
\* directory being unlistable, makes Initial return a non-nil error.
C8_ErrorsPropagate ==
  \A g \in Procs :
    (Returning(g) /\ run[g].faults \ {"readdir"} # {}) => err[g] # "nil"

\* C9: over any sequence of runs in which a script's content is not
\* changed, the script is executed against the store at most once.
C9_AtMostOnce ==
  \A n \in Names : execCount[n] <= 1

\* C10: concurrent Initial calls never overlap (at most one goroutine is
\* between Lock and Unlock), no script is executed twice (counted while its
\* content stays the same) and the ledger holds at most one row per script
\* name.
C10_Exclusive ==
  /\ MutualExclusion
  /\ \A n \in Names :
       /\ execCount[n] < 2
       /\ Cardinality({i \in 1..Len(ledger) : ledger[i].script = n}) <= 1

\* the rows of the ledger that carry script name n
RowsOf(n) == {i \in 1..Len(ledger) : ledger[i].script = n}

\* C13: whenever a migration run over a listable directory returns success,
\* every script of the directory has a ledger row with its name, the
\* checksum of its current content and status SUCCESS, and the ledger has
\* no ERROR row.
C13_SuccessComplete ==
  \A g \in Procs :
    (RanMigrations(g) /\ Listable /\ err[g] = "nil"
       /\ "readdir" \notin run[g].faults)
      => /\ \A n \in Scripts :
              \E i \in RowsOf(n) :
                /\ ledger[i].checksum = Checksum(dir[n])
                /\ ledger[i].status = SchemaVersionStatusSuccess
         /\ ~hasError(ledger)

\* C14: starting from an empty ledger, after any sequence of migration runs
\* no two ledger rows have the same script name, so findByScript's first
\* match is the only row of that name.
C14_UniqueNames ==
  \A n \in Names :
    /\ Cardinality(RowsOf(n)) <= 1
    /\ RowsOf(n) # {} => RowsOf(n) = {findByScript(n, ledger)}

\* C14 witness: a run that began with rows in the ledger has looked up a
\* recorded script a second time and returned, and the ledger holds rows
\* of two scripts.
C14_Witness ==
  \E g \in Procs :
    /\ RanMigrations(g) /\ Listable
    /\ \E n \in Scripts : Recorded(g, n)
    /\ Len(ledger) >= 2

\* Initial has returned success with a script directory configured
Initialised(g) == Returning(g) /\ config.ddlPath # "" /\ err[g] = "nil"

\* C11, as stated: after Initial returns success with a script directory
\* configured the ledger table exists, GetDB returns a non-nil handle and a
\* nil error, SchemaVersionArray returns a nil error and all rows in
\* insertion order (an empty, non-nil sequence when there are none), and
\* the ledger-creation step, called again, changes nothing.
C11_LedgerAvailable ==
  \A g \in Procs :
    Initialised(g)
      => /\ tableExists
         /\ \A ping, open \in BOOLEAN :
              /\ GetDB(db, ping, open).db # "nil"
              /\ GetDB(db, ping, open).err = "nil"
         /\ \A o \in Outcomes :
              /\ SchemaVersionArray(tableExists, ledger, o).err = "nil"
              /\ SchemaVersionArray(tableExists, ledger, o).svArray = ledger
              /\ ~SchemaVersionArray(tableExists, ledger, o).isNil
         /\ \A h, d \in Outcomes :
              initialSchemaVersion(tableExists, h, d).tableExists
                = tableExists

\* C11, amended: the same, for the calls the database answers.  GetDB
\* returns a non-nil handle and a nil error unless its liveness check and
\* its re-open both fail, when it returns a nil handle and the error;
\* SchemaVersionArray returns the rows unless GetDB or the query fails,
\* when it returns the nil sequence and the error.
C11_LedgerAvailableReachable ==
  \A g \in Procs :
    Initialised(g)
      => /\ tableExists
         /\ \A ping, open \in BOOLEAN :
              IF ping \/ open
              THEN /\ GetDB(db, ping, open).db # "nil"
                   /\ GetDB(db, ping, open).err = "nil"
              ELSE /\ GetDB(db, ping, open).db = "nil"
                   /\ GetDB(db, ping, open).err # "nil"
         /\ \A o \in Outcomes :
              IF o = "ok"
              THEN /\ SchemaVersionArray(tableExists, ledger, o).err = "nil"
                   /\ SchemaVersionArray(tableExists, ledger, o).svArray
                        = ledger
                   /\ ~SchemaVersionArray(tableExists, ledger, o).isNil
              ELSE /\ SchemaVersionArray(tableExists, ledger, o).err # "nil"
                   /\ SchemaVersionArray(tableExists, ledger, o).isNil
         /\ \A h, d \in Outcomes :
              initialSchemaVersion(tableExists, h, d).tableExists
                = tableExists

\* C11 witness: Initial returned success with a directory configured; the
\* ledger it leaves holds the rows of two scripts.
C11_Witness ==
  \E g \in Procs : Initialised(g) /\ Len(ledger) >= 2

\* C12: during Initial the connection open is attempted at most the
\* configured number of times (the Attempts option, default 3) before
\* Initial returns an error.
C12_BoundedRetry == opens <= config.attempts

\* the store operations
StoreOps == {"Insert", "Update", "Delete", "Transaction", "Count"}

\* C15: each of Insert, Update, Delete, Transaction and Count returns a
\* non-nil error whenever the connection cannot be obtained or its
\* statement fails, and none of them returns a nil error without having
\* performed its statement.
C15_FailuresSurfaced ==
  last.op \in StoreOps
    => /\ last.outcome \in {"getdb", "stmt"} => last.err # "nil"
       /\ last.err = "nil" => last.outcome = "ok"

\* C16, as stated: for every callback Transaction begins one transaction
\* and invokes the callback exactly once; the transaction is committed if
\* and only if the callback returns nil, and if the callback returns an
\* error the transaction is rolled back, never committed, and that error
\* is returned.
C16_TransactionOutcome ==
  last.op = "Transaction"
    => /\ last.begun = 1
       /\ last.invoked = 1
       /\ last.committed <=> last.callback = "nil"
       /\ last.callback # "nil"
            => /\ last.rollbacks = 1
               /\ ~last.committed
               /\ last.err = last.callback

\* C16, amended: when GetDB returns a handle and db.Begin succeeds,
\* Transaction has begun one transaction and invokes the callback exactly
\* once; tx.Commit is called if and only if the callback returns nil, and
\* its result is returned; if the callback returns an error the transaction
\* is rolled back, never committed, and that error is returned.  When
\* GetDB or db.Begin fails no transaction is begun, the callback is not
\* invoked and nothing is committed.
C16_TransactionOutcomeBegun ==
  last.op = "Transaction"
    => IF last.outcome \in {"getdb", "begin"}
       THEN /\ last.begun = 0 /\ last.invoked = 0
            /\ last.commits = 0 /\ last.rollbacks = 0
            /\ ~last.committed
       ELSE /\ last.begun = 1
            /\ last.invoked = 1
            /\ last.commits = 1 <=> last.callback = "nil"
            /\ last.committed => (last.commits = 1 /\ last.err = "nil")
            /\ last.callback = "nil"
                 => /\ last.rollbacks = 0
                    /\ last.committed <=> last.err = "nil"
            /\ last.callback # "nil"
                 => /\ last.rollbacks = 1
                    /\ ~last.committed
                    /\ last.err = last.callback

\* C16 witness: a Transaction whose callback returned an error after an
\* earlier one had committed its row.
C16_Witness ==
  /\ last.op = "Transaction"
  /\ last.begun = 1 /\ last.invoked = 1
  /\ last.callback # "nil" /\ last.rollbacks = 1
  /\ table # <<>>

====
